---------------------------- MODULE Spec2Model ----------------------------
(***************************************************************************)
(* A model of twine_spec_rng: the randomness payload (payload.rs), the     *)
(* pulse timing (timing.rs), the policy validators (validations.rs), the   *)
(* PayloadBuilder and extract_randomness (lib.rs).                          *)
(*                                                                         *)
(* Values.  Bytes are sequences over 0..255.  A Multihash is a record      *)
(* [code, digest]; its size() is Len(digest).  A DateTime<Utc> and a       *)
(* TimeDelta are records [secs, nanos] with 0 <= nanos < 10^9, as chrono   *)
(* stores them.  A Result is Ok(v) or Err(kind, why).                      *)
(*                                                                         *)
(* The chain library (twine_protocol) is outside the repository.  A chain  *)
(* header (Strand) is a record of what the code reads from it; an entry    *)
(* (Twine) is a record [strand, index, previous, payload, cid].  Content   *)
(* hashes are assigned by the library: equal contents get equal hashes,    *)
(* different contents different hashes, the bytes themselves being any     *)
(* digest of the right size.                                               *)
(***************************************************************************)
EXTENDS Integers, Sequences, FiniteSets, TLC

VARIABLES
  now,      \* the wall clock, what Utc::now() returns
  pb,       \* the PayloadBuilder in hand: [current, next]
  store,    \* the chain entries that exist (built here or received)
  res,      \* the last call made and what it returned
  hist      \* bookkeeping about how the caller used the builder

vars == <<now, pb, store, res, hist>>

----------------------------------------------------------------------------
(* Bounds of the model *)

\* the clock runs from ClockStart to ClockStart + MaxTicks seconds
MaxTicks == 3
\* at most this many entries exist
MaxEntries == 2

----------------------------------------------------------------------------
(* Results *)

Ok(v) == [ok |-> TRUE, val |-> v]
Err(kind, why) == [ok |-> FALSE, err |-> kind, why |-> why]

----------------------------------------------------------------------------
(* Bytes *)

Fill(b, n) == [i \in 1..n |-> b]

Min(a, b) == IF a <= b THEN a ELSE b

RECURSIVE BitXor(_, _)
BitXor(a, b) ==
  IF a = 0 THEN b
  ELSE IF b = 0 THEN a
  ELSE ((((a % 2) + (b % 2)) % 2) + (2 * BitXor(a \div 2, b \div 2)))

\* a.iter().zip(b.iter()).map(|(a, b)| a ^ b).collect(): zip stops at the
\* shorter of the two
XorZip(a, b) == [i \in 1..Min(Len(a), Len(b)) |-> BitXor(a[i], b[i])]

----------------------------------------------------------------------------
(* Multihash *)

Codes == {"Sha3_256", "Sha3_512"}

\* Code::try_from(code): the codes of the multihash code table
CodeSupported(code) == code \in Codes

CodeSize(code) == IF code = "Sha3_256" THEN 32 ELSE 64

\* The digest function stands for a collision-free hash: on byte strings of
\* at most 2 * CodeSize(code) bytes, each below 15, it is injective (two
\* input bytes are packed into each output byte, a missing byte as 0).
Nib(data, i) == IF i <= Len(data) THEN ((data[i] % 15) + 1) ELSE 0
DigestBytes(code, data) ==
  [i \in 1..CodeSize(code) |->
     Nib(data, i) + (16 * Nib(data, i + CodeSize(code)))]
Digest(code, data) == [code |-> code, digest |-> DigestBytes(code, data)]

MhSize(mh) == Len(mh.digest)

----------------------------------------------------------------------------
(* Time: chrono's DateTime<Utc> and TimeDelta *)

NanosPerSec == 1000000000
NanosPerMilli == 1000000

T(s, n) == [secs |-> s, nanos |-> n]
Secs(s) == T(s, 0)

TLt(a, b) == a.secs < b.secs \/ (a.secs = b.secs /\ a.nanos < b.nanos)
TLe(a, b) == a = b \/ TLt(a, b)

TAdd(a, b) ==
  IF a.nanos + b.nanos >= NanosPerSec
  THEN T(a.secs + b.secs + 1, a.nanos + b.nanos - NanosPerSec)
  ELSE T(a.secs + b.secs, a.nanos + b.nanos)

TSub(a, b) ==
  IF a.nanos >= b.nanos
  THEN T(a.secs - b.secs, a.nanos - b.nanos)
  ELSE T(a.secs - b.secs - 1, a.nanos + NanosPerSec - b.nanos)

\* DateTime::timestamp_subsec_millis
SubsecMillis(t) == t.nanos \div NanosPerMilli

\* stamp.rem_euclid(span) for a stamp at or after the epoch
RECURSIVE TRem(_, _)
TRem(t, span) == IF TLt(t, span) THEN t ELSE TRem(TSub(t, span), span)

\* DurationRound::duration_trunc: an error for a span that is not positive
DurationTrunc(t, span) ==
  IF TLe(span, Secs(0)) THEN Err("RoundingError", "DurationExceedsLimit")
  ELSE Ok(TSub(t, TRem(t, span)))

----------------------------------------------------------------------------
(* timing.rs.  Each Utc::now() is a parameter: clk is the reading of        *)
(* next_truncated_time (timing.rs:4) or the first reading of               *)
(* next_pulse_timestamp (timing.rs:13), clk2 the reading next_truncated_time *)
(* takes when next_pulse_timestamp calls it.                               *)

\* next_truncated_time without the step to the following boundary (a faulty
\* variant)
next_truncated_time_floor(period, clk) ==
  LET tr == DurationTrunc(clk, period)
  IN  IF tr.ok THEN Ok(tr.val) ELSE Err("Panic", "unwrap")

\* next_truncated_time adding the period to the clock reading itself (a
\* faulty variant)
next_truncated_time_unaligned(period, clk) ==
  IF DurationTrunc(clk, period).ok
  THEN Ok(TAdd(clk, period)) ELSE Err("Panic", "unwrap")

\* now.duration_trunc(period).unwrap() + period; unwrap panics on an error
next_truncated_time(period, clk) ==
  LET tr == DurationTrunc(clk, period)
  IN  IF tr.ok THEN Ok(TAdd(tr.val, period)) ELSE Err("Panic", "unwrap")

\* next_pulse_timestamp keeping the old cadence after a stall (a faulty
\* variant)
next_pulse_timestamp_catch_up(prev_time, period, clk, clk2) ==
  Ok(TAdd(prev_time, period))

\* next_pulse_timestamp comparing the elapsed time with <= (a faulty variant)
next_pulse_timestamp_inclusive(prev_time, period, clk, clk2) ==
  IF TLe(TSub(clk, prev_time), period)
  THEN Ok(TAdd(prev_time, period))
  ELSE LET tr == DurationTrunc(clk2, period)
       IN  IF tr.ok THEN Ok(TAdd(tr.val, period)) ELSE Err("Panic", "unwrap")

\* the clock is read for the comparison and, when a period has passed,
\* again inside next_truncated_time
next_pulse_timestamp(prev_time, period, clk, clk2) ==
  IF TLt(TSub(clk, prev_time), period)
  THEN Ok(TAdd(prev_time, period))
  ELSE next_truncated_time(period, clk2)

----------------------------------------------------------------------------
(* validations.rs *)

SPEC_PREFIX == "twine-rng"

\* validate_signing_algorithm accepting every algorithm (a faulty variant)
validate_signing_algorithm_any(alg) == Ok(TRUE)

validate_signing_algorithm(alg) ==
  IF alg \in {"Sha256Rsa", "Sha384Rsa", "Sha512Rsa"}
  THEN Ok(TRUE)
  ELSE Err("PayloadConstruction", "Signature algorithm must be provably deterministic")

validate_subspec(subspec) ==
  IF subspec.prefix # SPEC_PREFIX
  THEN Err("PayloadConstruction", "Subspec prefix must be twine-rng")
  ELSE Ok(TRUE)

\* subspec.satisfies(VersionReq::parse("1.0.*"))
Satisfies10(subspec) == subspec.major = 1 /\ subspec.minor = 0

----------------------------------------------------------------------------
(* payload.rs *)

Payload(salt, pre, timestamp) ==
  [salt |-> salt, pre |-> pre, timestamp |-> timestamp]

\* verify without the comparison of the salt length (a faulty variant)
verify_no_salt(raw) ==
  IF SubsecMillis(raw.timestamp) # 0
  THEN Err("Payload", "Timestamp has milliseconds")
  ELSE Ok(TRUE)

\* RandomnessPayloadRaw::verify
verify(raw) ==
  IF Len(raw.salt) # MhSize(raw.pre)
  THEN Err("Payload", "Salt length does not match pre hash size")
  ELSE IF SubsecMillis(raw.timestamp) # 0
  THEN Err("Payload", "Timestamp has milliseconds")
  ELSE Ok(TRUE)

\* RandomnessPayload::try_new, and the Deserialize of Verified<..>: both
\* run verify and give the payload only if it passes
try_new(salt, pre, timestamp) ==
  LET raw == Payload(salt, pre, timestamp)
      v == verify(raw)
  IN  IF v.ok THEN Ok(raw) ELSE v

\* entry.extract_payload::<RandomnessPayload>(): decodes the entry's payload
extract_payload(entry) ==
  try_new(entry.payload.salt, entry.payload.pre, entry.payload.timestamp)

\* prev.hasher(): the hash algorithm of the entry's content hash
hasher(entry) == entry.cid.code

\* a VerificationError crossing `?` into a BuildError
\* the ? conversion of a VerificationError; a panic is no value to convert
AsBuildError(r) ==
  IF r.ok \/ r.err = "Panic" THEN r ELSE Err("BadData", r.why)

local_random_value(self, prev) == XorZip(self.salt, prev.cid.digest)

\* new_next without the comparison of hash(rand) with the previous
\* commitment (a faulty variant)
new_next_no_precommit(rand, pre, prev, period, clk, clk2) ==
  LET pp == extract_payload(prev) IN
  IF ~pp.ok THEN AsBuildError(pp)
  ELSE IF MhSize(prev.cid) # MhSize(pre)
  THEN Err("PayloadConstruction", "Pre hash size does not match previous tixel hash size")
  ELSE LET salt == XorZip(rand, prev.cid.digest)
           ts == next_pulse_timestamp(pp.val.timestamp, period, clk, clk2)
       IN  IF ~ts.ok THEN ts
           ELSE AsBuildError(try_new(salt, pre, ts.val))

new_next(rand, pre, prev, period, clk, clk2) ==
  LET pp == extract_payload(prev) IN
  IF ~pp.ok THEN AsBuildError(pp)
  ELSE IF pp.val.pre # Digest(hasher(prev), rand)
  THEN Err("PayloadConstruction", "Precommitment does not match random bytes")
  ELSE IF MhSize(prev.cid) # MhSize(pre)
  THEN Err("PayloadConstruction", "Pre hash size does not match previous tixel hash size")
  ELSE LET salt == XorZip(rand, prev.cid.digest)
           ts == next_pulse_timestamp(pp.val.timestamp, period, clk, clk2)
       IN  IF ~ts.ok THEN ts
           ELSE AsBuildError(try_new(salt, pre, ts.val))

new_start(pre, period, clk) ==
  LET salt == Fill(0, MhSize(pre))
      ts == next_truncated_time(period, clk)
  IN  IF ~ts.ok THEN ts ELSE try_new(salt, pre, ts.val)

\* validate_randomness with one check changed (faulty variants): how the distance
\* of the timestamps is compared with the period, and whether the
\* commitment is compared
ValidateWith(self, prev, cadence, commit) ==
  IF MhSize(prev.cid) # MhSize(self.pre)
  THEN Err("Payload", "Pre hash size does not match previous tixel hash size")
  ELSE LET pp == extract_payload(prev) IN
  IF ~pp.ok THEN pp
  ELSE IF TLt(self.timestamp, pp.val.timestamp)
  THEN Err("Payload", "Timestamp is less than previous tixel timestamp")
  ELSE IF ~prev.strand.details.some
  THEN Err("Payload", "Invalid strand details")
  ELSE IF LET d == TSub(self.timestamp, pp.val.timestamp)
              period == prev.strand.details.period
          IN  CASE cadence = "within" -> TLt(period, d)
                [] cadence = "at least" -> TLt(d, period)
                [] OTHER -> d # period
  THEN Err("Payload", "Timestamps are not within one period of each other")
  ELSE IF ~CodeSupported(pp.val.pre.code)
  THEN Err("UnsupportedHashAlgorithm", "")
  ELSE IF commit /\ Digest(pp.val.pre.code, local_random_value(self, prev)) # pp.val.pre
  THEN Err("Payload", "Previous tixel pre hash does not match hash of random value")
  ELSE Ok(TRUE)

\* accepts any distance up to one period
validate_randomness_within(self, prev) ==
  ValidateWith(self, prev, "within", TRUE)

\* accepts any distance of one period or more
validate_randomness_at_least(self, prev) ==
  ValidateWith(self, prev, "at least", TRUE)

\* does not compare the commitment
validate_randomness_no_commit(self, prev) ==
  ValidateWith(self, prev, "exact", FALSE)

validate_randomness(self, prev) ==
  IF MhSize(prev.cid) # MhSize(self.pre)
  THEN Err("Payload", "Pre hash size does not match previous tixel hash size")
  ELSE LET pp == extract_payload(prev) IN
  IF ~pp.ok THEN pp
  ELSE IF TLt(self.timestamp, pp.val.timestamp)
  THEN Err("Payload", "Timestamp is less than previous tixel timestamp")
  ELSE IF ~prev.strand.details.some
  THEN Err("Payload", "Invalid strand details")
  ELSE IF TSub(self.timestamp, pp.val.timestamp) # prev.strand.details.period
  THEN Err("Payload", "Timestamps are not within one period of each other")
  ELSE IF ~CodeSupported(pp.val.pre.code)
  THEN Err("UnsupportedHashAlgorithm", "")
  ELSE IF Digest(pp.val.pre.code, local_random_value(self, prev)) # pp.val.pre
  THEN Err("Payload", "Previous tixel pre hash does not match hash of random value")
  ELSE Ok(TRUE)

----------------------------------------------------------------------------
(* lib.rs *)

\* PayloadBuilder::new
PayloadBuilderNew(current, next) == [current |-> current, next |-> next]

\* PayloadBuilder::advance keeping current instead of moving next into it (a
\* faulty variant)
advance_in_place(self, next) == PayloadBuilderNew(self.current, next)

\* PayloadBuilder::advance
advance(self, next) == PayloadBuilderNew(self.next, next)

\* PayloadBuilder::pre committing to current instead of next (a faulty
\* variant)
pre_of_current(self, code) == Digest(code, self.current)

\* PayloadBuilder::pre
pre(self, code) == Digest(code, self.next)

None == [some |-> FALSE]
Some(v) == [some |-> TRUE, v |-> v]

\* the closure PayloadBuilder::builder returns, called with (strand, prev)
builder(self, strand, prev, clk, clk2) ==
  LET alg == validate_signing_algorithm(strand.alg) IN
  IF ~alg.ok THEN alg
  ELSE IF ~strand.subspec.some
  THEN Err("PayloadConstruction", "Subspec is required for validation")
  ELSE IF ~validate_subspec(strand.subspec.v).ok
  THEN validate_subspec(strand.subspec.v)
  ELSE IF ~Satisfies10(strand.subspec.v)
  THEN Err("BadData", "Unable to build payload for future version")
  ELSE IF ~strand.details.some
  THEN Err("BadData", "Invalid strand details")
  ELSE LET period == strand.details.period
           p == pre(self, strand.hasher)
       IN  IF ~prev.some
           THEN AsBuildError(new_start(p, period, clk))
           ELSE new_next(self.current, p, prev.v, period, clk, clk2)

\* prev != &p, p the Stitch current.previous() holds
MatchesStitch(entry, stitch) ==
  entry.strand.cid = stitch.strand /\ entry.cid = stitch.tixel

\* extract_randomness decoding the payload before it looks at the links
\* (a faulty variant)
extract_randomness_payload_first(current, prev) ==
  LET payload == extract_payload(current) IN
  IF ~payload.ok THEN payload
  ELSE IF current.strand.cid # prev.strand.cid
  THEN Err("General", "Current tixel and previous tixel are on different strands")
  ELSE IF ~current.previous.some
  THEN Err("General", "Current tixel has no previous link")
  ELSE IF ~MatchesStitch(prev, current.previous.v)
  THEN Err("General", "Previous tixel does not match current tixel's previous link")
  ELSE LET v == validate_randomness(payload.val, prev) IN
  IF ~v.ok THEN v
  ELSE Ok(current.cid.digest)

\* extract_randomness that trusts prev: it neither compares it with the
\* link of current nor validates the payload against it (a faulty variant)
extract_randomness_trusting(current, prev) ==
  IF current.strand.cid # prev.strand.cid
  THEN Err("General", "Current tixel and previous tixel are on different strands")
  ELSE IF ~current.previous.some
  THEN Err("General", "Current tixel has no previous link")
  ELSE LET payload == extract_payload(current) IN
  IF ~payload.ok THEN payload
  ELSE Ok(current.cid.digest)

extract_randomness(current, prev) ==
  IF current.strand.cid # prev.strand.cid
  THEN Err("General", "Current tixel and previous tixel are on different strands")
  ELSE IF ~current.previous.some
  THEN Err("General", "Current tixel has no previous link")
  ELSE IF ~MatchesStitch(prev, current.previous.v)
  THEN Err("General", "Previous tixel does not match current tixel's previous link")
  ELSE LET payload == extract_payload(current) IN
  IF ~payload.ok THEN payload
  ELSE LET v == validate_randomness(payload.val, prev) IN
  IF ~v.ok THEN v
  ELSE Ok(current.cid.digest)

----------------------------------------------------------------------------
(* The chain library: headers and entries *)

Subspec(prefix, major, minor, patch) ==
  Some([prefix |-> prefix, major |-> major, minor |-> minor, patch |-> patch])

Strand(cid, alg, subspec, code, details) ==
  [cid |-> cid, alg |-> alg, subspec |-> subspec, hasher |-> code,
   details |-> details]

Details(period) == [some |-> TRUE, period |-> period]

\* the header of the tests: RSA, twine-rng/1.0.0, Sha3_256
StrandA ==
  Strand(1, "Sha256Rsa", Subspec("twine-rng", 1, 0, 0), "Sha3_256",
         Details(Secs(2)))
\* another chain, with the hash of test_mallicious_data
StrandB ==
  Strand(2, "Sha512Rsa", Subspec("twine-rng", 1, 0, 3), "Sha3_512",
         Details(Secs(3)))
\* headers the builder refuses
StrandEd ==
  Strand(3, "Ed25519", Subspec("twine-rng", 1, 0, 0), "Sha3_256",
         Details(Secs(2)))
StrandEs ==
  Strand(8, "ES256", Subspec("twine-rng", 1, 0, 0), "Sha3_256",
         Details(Secs(2)))
StrandNoSubspec ==
  Strand(4, "Sha256Rsa", None, "Sha3_256", Details(Secs(2)))
StrandOther ==
  Strand(5, "Sha256Rsa", Subspec("other", 1, 0, 0), "Sha3_256",
         Details(Secs(2)))
StrandV11 ==
  Strand(6, "Sha256Rsa", Subspec("twine-rng", 1, 1, 0), "Sha3_256",
         Details(Secs(2)))
StrandNoDetails ==
  Strand(7, "Sha256Rsa", Subspec("twine-rng", 1, 0, 0), "Sha3_256",
         None)

\* a header with the third RSA variant
StrandRsa384 ==
  Strand(9, "Sha384Rsa", Subspec("twine-rng", 1, 0, 0), "Sha3_256",
         Details(Secs(2)))

\* a header of the builder's policy whose period is zero
StrandZeroPeriod ==
  Strand(10, "Sha256Rsa", Subspec("twine-rng", 1, 0, 0), "Sha3_256",
         Details(Secs(0)))

GoodStrands == {StrandA, StrandB}
BadStrands ==
  {StrandEd, StrandEs, StrandNoSubspec, StrandOther, StrandV11,
   StrandNoDetails}
Strands == GoodStrands \cup BadStrands \cup {StrandRsa384, StrandZeroPeriod}

Stitch(entry) == [strand |-> entry.strand.cid, tixel |-> entry.cid]

Content(strand, index, previous, payload) ==
  [strand |-> strand, index |-> index, previous |-> previous,
   payload |-> payload]

\* the random values the caller hands to the builder: of the size of the
\* digest, longer, and shorter
RawValues == {Fill(1, 32), Fill(1, 64), Fill(3, 31)}

\* The content hash of an entry, computed by the library over the whole
\* signed entry.  It is a function of the content (signing is deterministic
\* for the algorithms the builder accepts); the bytes are a mix of every
\* field, and NoCidCollision below checks that no two entries met collide.
Flat(content) ==
  <<content.strand.cid, content.index, content.payload.timestamp.secs % 256,
    content.payload.timestamp.nanos \div 4000000,
    Len(content.payload.salt), MhSize(content.payload.pre)>>
  \o content.payload.salt \o content.payload.pre.digest
  \o (IF content.previous.some THEN content.previous.v.tixel.digest ELSE <<>>)

RECURSIVE Mix(_, _, _)
Mix(flat, i, n) ==
  IF i > Len(flat) THEN 0
  ELSE ((flat[i] * (1 + (2 * ((i - 1) \div n)))) + Mix(flat, i + n, n)) % 256

ContentHash(content) ==
  LET n == CodeSize(content.strand.hasher)
      flat == Flat(content)
  IN  [code |-> content.strand.hasher,
       digest |-> [i \in 1..n |-> Mix(flat, i, n)]]

\* build_first(..).done() / build_next(..).done()
Done(content) ==
  [strand |-> content.strand, index |-> content.index,
   previous |-> content.previous, payload |-> content.payload,
   cid |-> ContentHash(content)]

----------------------------------------------------------------------------
(* The chain specification: an operator builds a chain on StrandA with a   *)
(* PayloadBuilder while the clock runs, and a verifier checks each entry   *)
(* against the entry before it.                                            *)

ClockStart == 7

\* seconds the wall clock may be set back between two readings of one call
ClockSetBack == 4

\* what a second Utc::now() of a call that first read clk may give: the
\* same instant, a later one, or an earlier one (the wall clock was set back)
Rereads(clk) == {clk, TAdd(clk, Secs(1)), TSub(clk, Secs(ClockSetBack))}

NoCall == [op |-> "none"]

\* PayloadBuilder::new(current, next); current is ignored for a first entry
Init ==
  /\ now = Secs(ClockStart)
  /\ \E c \in RawValues, n \in RawValues : pb = PayloadBuilderNew(c, n)
  /\ store = {}
  /\ res = NoCall
  /\ hist = [tip |-> None, adv |-> 0, honest |-> {}]

Tick ==
  /\ now.secs < ClockStart + MaxTicks
  /\ now' = TAdd(now, Secs(1))
  /\ res' = NoCall
  /\ UNCHANGED <<pb, store, hist>>

\* pb = pb.advance(n)
Advance(n) ==
  /\ pb' = advance(pb, n)
  /\ hist' = [hist EXCEPT !.adv = IF @ < 2 THEN @ + 1 ELSE @]
  /\ res' = NoCall
  /\ UNCHANGED <<now, store>>

\* the build follows the protocol of a session: the first entry of the
\* session, or an entry on the session's last one after exactly one advance,
\* less than a period after the last one's timestamp
Honest(prev) ==
  IF ~prev.some THEN ~hist.tip.some
  ELSE /\ hist.tip = Some(prev.v.cid)
       /\ prev.v.cid \in hist.honest
       /\ hist.adv = 1
       /\ TLt(TSub(now, prev.v.payload.timestamp), prev.v.strand.details.period)

\* builder.build_first(strand) / builder.build_next(&prev), then
\* .build_payload_then_done(pb.builder()); the closure reads the clock at
\* now and, if it reads it again, at clk2
Build(strand, prev, clk2) ==
  LET out == builder(pb, strand, prev, now, clk2)
      call == [op |-> "build", strand |-> strand, prev |-> prev, pb |-> pb,
               clk |-> now, adv |-> hist.adv, tip |-> hist.tip,
               honest |-> Honest(prev), out |-> out]
  IN
  IF ~out.ok
  THEN /\ res' = call @@ [entry |-> None]
       /\ UNCHANGED <<now, pb, store, hist>>
  ELSE LET e == Done(Content(strand,
                             IF prev.some THEN prev.v.index + 1 ELSE 0,
                             IF prev.some THEN Some(Stitch(prev.v)) ELSE None,
                             out.val))
       IN
         /\ Cardinality(store \cup {e}) <= MaxEntries
         /\ store' = store \cup {e}
         /\ res' = call @@ [entry |-> Some(e)]
         /\ hist' = [hist EXCEPT
                       !.tip = Some(e.cid), !.adv = 0,
                       !.honest = IF Honest(prev) THEN @ \cup {e.cid} ELSE @]
         /\ UNCHANGED <<now, pb>>

\* new_start reads the clock once
BuildFirst == Build(StrandA, None, now)

\* on any entry built so far
BuildNext(prev) ==
  \E clk2 \in Rereads(now) : Build(prev.strand, Some(prev), clk2)

\* extract_randomness(&current, &prev)
Extract(current, prev) ==
  /\ res' = [op |-> "extract", current |-> current, prev |-> prev,
             out |-> extract_randomness(current, prev)]
  /\ UNCHANGED <<now, pb, store, hist>>

Next ==
  \/ Tick
  \/ \E n \in RawValues : Advance(n)
  \/ BuildFirst
  \/ \E prev \in store : BuildNext(prev)
  \/ \E current \in store, prev \in store :
       current.index = prev.index + 1 /\ Extract(current, prev)

Spec == Init /\ [][Next]_vars

----------------------------------------------------------------------------
(* The call specification: one call of a function of the crate per run, on *)
(* inputs drawn from bounded sets, at a clock reading drawn by InitFn.     *)

\* clock readings, on and off the second
FnClocks ==
  {T(ClockStart + k, n) : k \in 0..MaxTicks, n \in {0, 250000000}}

\* raw random values: of the digest size of Sha3_256, longer, shorter
FnValues == {Fill(1, 32), Fill(2, 32), Fill(1, 64), Fill(3, 31)}

\* random values of the digest size of StrandA, as in the tests
ForkValues == {Fill(1, 32), Fill(2, 32)}

\* timestamps of a previous entry: before the clock (on and off the grid of
\* StrandA) and after it
PrevTimes == {Secs(ClockStart - 3), Secs(ClockStart - 1), Secs(ClockStart + 1)}

OtherCode(code) == IF code = "Sha3_256" THEN "Sha3_512" ELSE "Sha3_256"

\* payloads of a first entry: what new_start gives for some commitment, one
\* whose commitment uses another hash than the chain's, and one that does
\* not decode (its salt is too short)
PrevPayloads(strand) ==
  {Payload(Fill(0, CodeSize(strand.hasher)), Digest(strand.hasher, r), t) :
     r \in FnValues, t \in PrevTimes}
  \cup {Payload(Fill(0, CodeSize(OtherCode(strand.hasher))),
                Digest(OtherCode(strand.hasher), Fill(1, 32)),
                Secs(ClockStart - 1)),
        Payload(Fill(0, 31), Digest(strand.hasher, Fill(1, 32)),
                Secs(ClockStart - 1))}

FirstEntriesOn(s) == {Done(Content(s, 0, None, p)) : p \in PrevPayloads(s)}

FirstEntries == UNION {FirstEntriesOn(s) : s \in GoodStrands}

\* the timestamp of the entry's payload as stored, decoded or not
RawTime(entry) == entry.payload.timestamp

Period(entry) == entry.strand.details.period

\* the value next_pulse_timestamp yields after prev when it reads the clock
\* at clk and then at clk2
Late(prev, clk, clk2) ==
  next_pulse_timestamp(RawTime(prev), Period(prev), clk, clk2).val

\* the values it may yield when it first reads clk
LateTimes(prev, clk) == {Late(prev, clk, clk2) : clk2 \in Rereads(clk)}

SuccSalts(prev) ==
  {XorZip(r, prev.cid.digest) : r \in FnValues}
  \cup {Fill(0, MhSize(prev.cid))}

SuccPres(prev) ==
  {Digest(prev.strand.hasher, Fill(2, 32)),
   Digest(OtherCode(prev.strand.hasher), Fill(2, 32))}

SuccTimes(prev, clk) ==
  {TAdd(RawTime(prev), TAdd(Period(prev), d)) :
     d \in {Secs(-1), Secs(0), Secs(1), T(0, 500000)}}
  \cup {TSub(RawTime(prev), Secs(1))} \cup LateTimes(prev, clk)

\* payloads someone may publish after prev
SuccPayloads(prev, clk) ==
  {Payload(salt, p, t) :
     salt \in SuccSalts(prev), p \in SuccPres(prev), t \in SuccTimes(prev, clk)}

\* entries someone may publish after prev: linked to prev, to nothing, to
\* another entry, or on another chain
SuccEntries(prev, clk) ==
  LET pls == {Payload(salt, Digest(prev.strand.hasher, Fill(2, 32)), t) :
                salt \in SuccSalts(prev),
                t \in {TAdd(RawTime(prev), Period(prev)),
                       TAdd(RawTime(prev), TAdd(Period(prev), T(0, 10000000)))}
                      \cup LateTimes(prev, clk)}
      other == CHOOSE f \in FirstEntries :
                 f.strand = prev.strand /\ f # prev
  IN  {Done(Content(prev.strand, 1, Some(Stitch(prev)), pl)) : pl \in pls}
      \cup {Done(Content(prev.strand, 0, None, pl)) : pl \in pls}
      \cup {Done(Content(prev.strand, 1, Some(Stitch(other)), pl)) : pl \in pls}
      \cup {Done(Content(s, 1, Some([strand |-> s.cid, tixel |-> prev.cid]), pl)) :
              s \in GoodStrands \ {prev.strand}, pl \in pls}

InitFn ==
  /\ now \in FnClocks
  /\ pb = PayloadBuilderNew(Fill(1, 32), Fill(2, 32))
  /\ store = {}
  /\ res = NoCall
  /\ hist = [tip |-> None, adv |-> 0, honest |-> {}]

Call(r) == res' = r /\ UNCHANGED <<now, pb, store, hist>>

\* RandomnessPayload::try_new(salt, pre, timestamp)
CallTryNew(salt, p, t) ==
  Call([op |-> "try_new", salt |-> salt, pre |-> p, timestamp |-> t,
        out |-> try_new(salt, p, t)])

\* deserializing a RandomnessPayload from its three serialized fields
CallDecode(salt, p, t) ==
  Call([op |-> "decode", salt |-> salt, pre |-> p, timestamp |-> t,
        out |-> try_new(salt, p, t)])

\* RandomnessPayload::new_start(pre, period)
CallNewStart(p, period) ==
  Call([op |-> "new_start", pre |-> p, period |-> period, clk |-> now,
        out |-> new_start(p, period, now)])

\* RandomnessPayload::new_next(rand, pre, prev, period)
CallNewNext(rand, p, prev, period, clk2) ==
  Call([op |-> "new_next", rand |-> rand, pre |-> p, prev |-> prev,
        period |-> period, clk |-> now, clk2 |-> clk2,
        out |-> new_next(rand, p, prev, period, now, clk2)])

\* payload.validate_randomness(prev), payload a RandomnessPayload
CallValidate(self, prev) ==
  /\ verify(self).ok
  /\ Call([op |-> "validate", self |-> self, prev |-> prev, clk |-> now,
           out |-> validate_randomness(self, prev)])

\* extract_randomness(current, prev) on entries received
CallExtract(current, prev) ==
  Call([op |-> "extract", current |-> current, prev |-> prev, clk |-> now,
        out |-> extract_randomness(current, prev)])

\* pb.builder()(strand, prev)
CallBuilder(self, strand, prev, clk2) ==
  Call([op |-> "builder", self |-> self, strand |-> strand, prev |-> prev,
        clk |-> now, clk2 |-> clk2,
        out |-> builder(self, strand, prev, now, clk2)])

\* builder values: any current, a next of the digest size of StrandA
Builders ==
  {PayloadBuilderNew(c, n) : c \in FnValues, n \in ForkValues}

\* next_truncated_time(period)
CallTruncated(period) ==
  Call([op |-> "next_truncated_time", period |-> period, clk |-> now,
        out |-> next_truncated_time(period, now)])

\* next_pulse_timestamp(prev_time, period)
CallNextPulse(prev_time, period, clk2) ==
  Call([op |-> "next_pulse_timestamp", prev_time |-> prev_time,
        period |-> period, clk |-> now, clk2 |-> clk2,
        out |-> next_pulse_timestamp(prev_time, period, now, clk2)])

\* periods of a strand: whole seconds and a second and a half
PulsePeriods == {Secs(1), Secs(2), Secs(3), T(1, 500000000)}

\* previous timestamps from the epoch to after the clock, on and off the
\* second
PulsePrevTimes ==
  {T(ClockStart + d, n) : d \in (0 - ClockStart)..2, n \in {0, 250000000}}

\* the closure of one builder value called twice with the same arguments:
\* the first call reads the clock at now and then at r1, the second call
\* at clk2 and then at r2
CallBuilderTwice(self, strand, prev, r1, clk2, r2) ==
  Call([op |-> "builder_twice", self |-> self, strand |-> strand,
        prev |-> prev, clk |-> now, r1 |-> r1, clk2 |-> clk2, r2 |-> r2,
        out |-> builder(self, strand, prev, now, r1),
        out2 |-> builder(self, strand, prev, clk2, r2)])

\* headers that carry a period but fail a policy check of the builder
ForeignStrands == {StrandEd, StrandEs, StrandNoSubspec, StrandOther, StrandV11}

\* entries published after prev on its chain and linked to it, one period
\* later, with a salt that opens prev's commitment or one that does not
LinkedEntries(prev) ==
  {Done(Content(prev.strand, 1, Some(Stitch(prev)),
                Payload(salt, Digest(prev.strand.hasher, Fill(2, 32)),
                        TAdd(RawTime(prev), Period(prev))))) :
     salt \in SuccSalts(prev)}

TryNewSalts == {Fill(0, 32), Fill(0, 31), Fill(0, 64)}
TryNewPres == {Digest(c, Fill(1, 32)) : c \in Codes}
TryNewTimes ==
  {T(ClockStart, n) : n \in {0, 500000, 999999, 1000000, 10000000}}
StartPeriods ==
  {Secs(2), Secs(3), T(1, 500000000), T(1, 500000), Secs(0)}

\* A chain of two entries built as test_frayed_strand builds one: a new
\* PayloadBuilder with next = n0 builds the first entry, is advanced with n1
\* and builds the second, both at the clock reading clk.
BuildFork(n0, n1, clk) ==
  LET pb0 == PayloadBuilderNew(Fill(0, 32), n0)
      p1 == builder(pb0, StrandA, None, clk, clk)
  IN  IF ~p1.ok THEN [ok |-> FALSE]
      ELSE LET first == Done(Content(StrandA, 0, None, p1.val))
               p2 == builder(advance(pb0, n1), StrandA, Some(first), clk, clk)
           IN  IF ~p2.ok THEN [ok |-> FALSE]
               ELSE [ok |-> TRUE, first |-> first,
                     second |-> Done(Content(StrandA, 1, Some(Stitch(first)),
                                             p2.val))]

\* forks built now or a period ago
Forks(clk) ==
  {f \in {BuildFork(n0, n1, t) :
            n0 \in ForkValues, n1 \in ForkValues,
            t \in {clk, TSub(clk, StrandA.details.period)}} :
     f.ok}

\* extract_randomness(&second_a, &first_b) on two forks
CallCross(a, b) ==
  Call([op |-> "cross", a |-> a, b |-> b, clk |-> now,
        out |-> extract_randomness(a.second, b.first)])

AnyTryNew ==
  /\ res = NoCall
  /\ \E salt \in TryNewSalts, p \in TryNewPres, t \in TryNewTimes :
       CallTryNew(salt, p, t)

AnyDecode ==
  /\ res = NoCall
  /\ \E salt \in TryNewSalts, p \in TryNewPres, t \in TryNewTimes :
       CallDecode(salt, p, t)

AnyNewStart ==
  /\ res = NoCall
  /\ \E p \in TryNewPres, period \in StartPeriods : CallNewStart(p, period)

AnyNewNext ==
  /\ res = NoCall
  /\ \E prev \in FirstEntries, rand \in FnValues :
       \E p \in SuccPres(prev), clk2 \in Rereads(now) :
         CallNewNext(rand, p, prev, Period(prev), clk2)

AnyValidate ==
  /\ res = NoCall
  /\ \E prev \in FirstEntries :
       \E self \in SuccPayloads(prev, now) : CallValidate(self, prev)

AnyExtract ==
  /\ res = NoCall
  /\ \E prev \in FirstEntries :
       \E current \in SuccEntries(prev, now) : CallExtract(current, prev)

AnyBuilder ==
  /\ res = NoCall
  /\ \E self \in Builders, strand \in Strands :
       \E prev \in {None} \cup {Some(e) : e \in FirstEntriesOn(strand)},
          clk2 \in Rereads(now) :
         CallBuilder(self, strand, prev, clk2)

AnyTruncated ==
  /\ res = NoCall
  /\ \E period \in PulsePeriods : CallTruncated(period)

AnyNextPulse ==
  /\ res = NoCall
  /\ \E prev_time \in PulsePrevTimes, period \in PulsePeriods,
        clk2 \in Rereads(now) :
       CallNextPulse(prev_time, period, clk2)

AnyBuilderTwice ==
  /\ res = NoCall
  /\ \E self \in {PayloadBuilderNew(c, Fill(2, 32)) : c \in ForkValues},
        strand \in {StrandA, StrandB, StrandEd} :
       \E prev \in {None} \cup {Some(e) : e \in FirstEntriesOn(strand)},
          clk2 \in {c \in FnClocks : TLe(now, c)} :
         \E r1 \in Rereads(now), r2 \in Rereads(clk2) :
           CallBuilderTwice(self, strand, prev, r1, clk2, r2)

\* extract_randomness on entries of chains the builder would refuse
AnyExtractForeign ==
  /\ res = NoCall
  /\ \E strand \in ForeignStrands :
       \E prev \in FirstEntriesOn(strand) :
         \E current \in LinkedEntries(prev) : CallExtract(current, prev)

AnyCross ==
  /\ res = NoCall
  /\ \E a \in Forks(now), b \in Forks(now) : CallCross(a, b)

NextFn ==
  \/ AnyTryNew
  \/ AnyDecode
  \/ AnyNewStart
  \/ AnyNewNext
  \/ AnyValidate
  \/ AnyExtract
  \/ AnyExtractForeign
  \/ AnyBuilder
  \/ AnyBuilderTwice
  \/ AnyTruncated
  \/ AnyNextPulse
  \/ AnyCross

SpecFn == InitFn /\ [][NextFn]_vars

----------------------------------------------------------------------------
(* Soundness of the hash model, checked with the claims: within the values *)
(* the specifications meet, the hashes do not collide.                     *)

NoCidCollision ==
  \A e \in store, f \in store : e.cid = f.cid => e = f

NoFnCidCollision ==
  \A e \in FirstEntries, f \in FirstEntries : e.cid = f.cid => e = f

NoDigestCollision ==
  \A c \in Codes, x \in FnValues \cup RawValues, y \in FnValues \cup RawValues :
    Digest(c, x) = Digest(c, y) => x = y

----------------------------------------------------------------------------
(* Claims checked under Spec *)

\* C1 (end to end): in a chain built by one PayloadBuilder session (first
\* entry without predecessor, one advance before each later build, each
\* build less than a period after the previous timestamp),
\* extract_randomness(entry_i, entry_{i-1}) succeeds and returns the
\* content-hash digest of entry_i.
C1_EndToEnd ==
  (/\ res.op = "extract"
   /\ res.current.cid \in hist.honest
   /\ res.prev.cid \in hist.honest
   /\ res.current.previous = Some(Stitch(res.prev)))
  => (res.out.ok /\ res.out.val = res.current.cid.digest)

\* the same restricted to random values of exactly the digest size: holds
C1_ExactSize ==
  (/\ res.op = "extract"
   /\ res.current.cid \in hist.honest
   /\ res.prev.cid \in hist.honest
   /\ res.current.previous = Some(Stitch(res.prev))
   /\ Len(res.current.payload.salt) = 32
   /\ res.prev.payload.pre = Digest("Sha3_256", Fill(1, 32)))
  => (res.out.ok /\ res.out.val = res.current.cid.digest)

\* the builder value that built the predecessor is used again without an
\* advance, or after two advances
Misused ==
  /\ res.op = "build"
  /\ res.prev.some
  /\ res.tip = Some(res.prev.v.cid)
  /\ res.adv \in {0, 2}

Committed ==
  Digest(hasher(res.prev.v), res.pb.current) = res.prev.v.payload.pre

C6_ShortReused ==
  /\ Misused
  /\ res.adv = 0
  /\ Committed
  /\ Len(res.pb.current) < MhSize(res.prev.v.payload.pre)
  /\ ~res.out.ok

C6_LongReused ==
  /\ Misused
  /\ Committed
  /\ Len(res.pb.current) > MhSize(res.prev.v.payload.pre)
  /\ res.out.ok

C6_SizedLate ==
  /\ Misused
  /\ Committed
  /\ Len(res.pb.current) = MhSize(res.prev.v.payload.pre)
  /\ res.out.ok
  /\ ~extract_randomness(res.entry.v, res.prev.v).ok

----------------------------------------------------------------------------
(* Claims checked under SpecFn *)

\* the commit-reveal equation between a payload and the entry before it
Commits(p, prev) ==
  Digest(prev.payload.pre.code, XorZip(p.salt, prev.cid.digest))
    = prev.payload.pre

\* C2 (commit-reveal closure): validate_randomness(self, prev) is Ok only if
\* hashing self.salt XOR content_hash_digest(prev) with the hash algorithm
\* of prev's commitment gives prev's pre; so does every pair
\* extract_randomness accepts, and a payload whose salt does not match is
\* rejected.
C2_CommitReveal ==
  /\ (res.op = "validate" /\ res.out.ok) => Commits(res.self, res.prev)
  /\ (res.op = "extract" /\ res.out.ok)
       => Commits(res.current.payload, res.prev)

\* the payload with its timestamp set one period after prev's
OnCadence(p, prev) ==
  [p EXCEPT !.timestamp = TAdd(RawTime(prev), Period(prev))]

\* a payload of the right digest size and cadence is rejected for its salt
C2_Witness ==
  /\ res.op = "validate"
  /\ MhSize(res.prev.cid) = MhSize(res.self.pre)
  /\ res.self = OnCadence(res.self, res.prev)
  /\ ~Commits(res.self, res.prev)
  /\ ~res.out.ok
  /\ res.out.why = "Previous tixel pre hash does not match hash of random value"

\* C3 (cadence exactness): validate_randomness accepts a payload only if
\* its timestamp is exactly the previous timestamp plus the period.
C3_Cadence ==
  (res.op = "validate" /\ res.out.ok)
  => res.self.timestamp = TAdd(RawTime(res.prev), Period(res.prev))

\* a payload one second late, valid in everything else, is rejected
C3_Witness ==
  /\ res.op = "validate"
  /\ res.self.timestamp
       = TAdd(RawTime(res.prev), TAdd(Period(res.prev), Secs(1)))
  /\ validate_randomness(OnCadence(res.self, res.prev), res.prev).ok
  /\ ~res.out.ok

\* at the clock reading clk a period after prev has been skipped
Skipped(prev, clk) == ~TLt(TSub(clk, RawTime(prev)), Period(prev))

\* C4 (late-pulse rejection): a payload whose timestamp is what
\* next_pulse_timestamp yields once a period has been skipped is rejected
\* by validate_randomness and by extract_randomness, for every clock value
\* and previous timestamp.
C4_LatePulse ==
  /\ (/\ res.op = "validate"
      /\ Skipped(res.prev, res.clk)
      /\ res.self.timestamp \in LateTimes(res.prev, res.clk))
     => ~res.out.ok
  /\ (/\ res.op = "extract"
      /\ Skipped(res.prev, res.clk)
      /\ res.current.payload.timestamp \in LateTimes(res.prev, res.clk))
     => ~res.out.ok

\* the values next_pulse_timestamp may yield when the clock is not set back
\* between its two readings
SteadyLateTimes(prev, clk) ==
  {Late(prev, clk, clk2) : clk2 \in {c \in Rereads(clk) : TLe(clk, c)}}

\* the same for these values: holds
C4_SteadyClock ==
  /\ (/\ res.op = "validate"
      /\ Skipped(res.prev, res.clk)
      /\ res.self.timestamp \in SteadyLateTimes(res.prev, res.clk))
     => ~res.out.ok
  /\ (/\ res.op = "extract"
      /\ Skipped(res.prev, res.clk)
      /\ res.current.payload.timestamp \in SteadyLateTimes(res.prev, res.clk))
     => ~res.out.ok

\* a late payload, valid in everything else, is rejected for its timestamp
C4_Witness ==
  /\ res.op = "validate"
  /\ Skipped(res.prev, res.clk)
  /\ res.self.timestamp = Late(res.prev, res.clk, res.clk)
  /\ validate_randomness(OnCadence(res.self, res.prev), res.prev).ok
  /\ ~res.out.ok
  /\ res.out.why = "Timestamps are not within one period of each other"

\* C5 (round trip): whenever new_next(r, pre, P, period) succeeds,
\* local_random_value of its payload against P is r, byte for byte.
C5_RoundTrip ==
  (res.op = "new_next" /\ res.out.ok)
  => local_random_value(res.out.val, res.prev) = res.rand

\* the same for reveals no longer than the digest: holds
C5_NotLonger ==
  (res.op = "new_next" /\ res.out.ok /\ Len(res.rand) <= MhSize(res.prev.cid))
  => local_random_value(res.out.val, res.prev) = res.rand

Constructors == {"try_new", "decode", "new_start", "new_next"}

\* C8 (whole seconds): every payload try_new, new_start, new_next or
\* decoding gives has a timestamp whose sub-second part is zero.
C8_WholeSeconds ==
  (res.op \in Constructors /\ res.out.ok)
  => res.out.val.timestamp.nanos = 0

\* what the code ensures: no whole milliseconds
C8_NoMillis ==
  (res.op \in Constructors /\ res.out.ok)
  => res.out.val.timestamp.nanos < NanosPerMilli

\* C9 (salt length): every payload try_new, new_start, new_next or decoding
\* gives has len(salt) = digest_size(pre); an input that would break this,
\* such as new_next with a reveal shorter than the predecessor's digest,
\* gives an error.
C9_SaltLength ==
  /\ (res.op \in Constructors /\ res.out.ok)
       => Len(res.out.val.salt) = MhSize(res.out.val.pre)
  /\ (res.op \in {"try_new", "decode"} /\ Len(res.salt) # MhSize(res.pre))
       => ~res.out.ok
  /\ (res.op = "new_next" /\ Len(res.rand) < MhSize(res.prev.cid))
       => ~res.out.ok

\* new_next refuses a reveal that matches the commitment but is too short
C9_Witness ==
  /\ res.op = "new_next"
  /\ Len(res.rand) < MhSize(res.prev.cid)
  /\ extract_payload(res.prev).ok
  /\ res.prev.payload.pre = Digest(hasher(res.prev), res.rand)
  /\ MhSize(res.prev.cid) = MhSize(res.pre)
  /\ ~res.out.ok
  /\ res.out.why = "Salt length does not match pre hash size"

\* current is not linked to prev
Unlinked(current, prev) ==
  \/ current.strand.cid # prev.strand.cid
  \/ ~current.previous.some
  \/ current.previous # Some(Stitch(prev))

\* C10 (linkage first): extract_randomness gives a General error, never a
\* value, when the entries are on different chains, when current has no
\* predecessor link or when the link is not prev; whatever the payloads.
C10_Linkage ==
  (res.op = "extract" /\ Unlinked(res.current, res.prev))
  => (~res.out.ok /\ res.out.err = "General")

\* an entry without link whose payload does not even decode
C10_Witness ==
  /\ res.op = "extract"
  /\ res.current.strand.cid = res.prev.strand.cid
  /\ ~res.current.previous.some
  /\ ~extract_payload(res.current).ok
  /\ ~res.out.ok
  /\ res.out.err = "General"

\* C7 (fork rejection) as stated: for two forks of one chain, each built
\* by its own PayloadBuilder, extract_randomness(second_A, first_B) fails.
C7_ForkRejection ==
  (res.op = "cross" /\ res.a # res.b) => ~res.out.ok

\* C7 amended: it fails with a General error (the previous link of second_A
\* is not first_B) whenever first_A and first_B are different entries.
\* (Two forks that commit to the same next value in the same period have
\* the same first entry, and then it succeeds.)
C7_ForkRejectionAmended ==
  (res.op = "cross" /\ res.a.first # res.b.first)
  => (/\ ~res.out.ok
      /\ res.out.err = "General"
      /\ res.out.why
           = "Previous tixel does not match current tixel's previous link")

\* two forks whose first entries differ only in the commitment
C7_Witness ==
  /\ res.op = "cross"
  /\ res.a.first # res.b.first
  /\ RawTime(res.a.first) = RawTime(res.b.first)
  /\ ~res.out.ok
  /\ res.out.err = "General"

----------------------------------------------------------------------------
(* The timing functions *)

\* k periods after the epoch
RECURSIVE Grid(_, _)
Grid(period, k) ==
  IF k = 0 THEN Secs(0) ELSE TAdd(Grid(period, k - 1), period)

\* the boundaries of the period grid up to one period after the last clock
GridPoints(period) ==
  {Grid(period, k) : k \in 0..(ClockStart + MaxTicks + 1)}

\* the boundary at or before clk
Floor(clk, period) ==
  CHOOSE g \in GridPoints(period) :
    TLe(g, clk) /\ TLt(clk, TAdd(g, period))

\* C12 (next_pulse_timestamp): when less than a period has elapsed since
\* prev_time the result is prev_time + period; otherwise it is what
\* next_truncated_time(period) gives, the boundary at or before the instant
\* that call reads plus one period, whatever slots were missed.
C12_NextPulse ==
  res.op = "next_pulse_timestamp" =>
    IF TLt(TSub(res.clk, res.prev_time), res.period)
    THEN res.out = Ok(TAdd(res.prev_time, res.period))
    ELSE res.out = Ok(TAdd(Floor(res.clk2, res.period), res.period))

\* prev_time = ts - period with now in [ts, ts + period) at both readings,
\* ts on the grid, gives ts + period
C12_Witness ==
  /\ res.op = "next_pulse_timestamp"
  /\ TAdd(res.prev_time, res.period) = Floor(res.clk, res.period)
  /\ TLt(Floor(res.clk, res.period), res.clk)
  /\ TLt(res.clk, res.clk2)
  /\ Floor(res.clk2, res.period) = Floor(res.clk, res.period)
  /\ res.out = Ok(TAdd(TAdd(res.prev_time, res.period), res.period))

\* C13 (next_truncated_time): for a positive period the result is a
\* boundary of the period grid, strictly later than now and at most one
\* period after now; with now on a boundary it is now + period.
C13_Truncated ==
  res.op = "next_truncated_time" =>
    /\ res.out.ok
    /\ res.out.val \in GridPoints(res.period)
    /\ TLt(res.clk, res.out.val)
    /\ TLe(res.out.val, TAdd(res.clk, res.period))
    /\ (res.clk \in GridPoints(res.period)
          => res.out.val = TAdd(res.clk, res.period))

\* a clock reading on a boundary gives the following boundary
C13_Witness ==
  /\ res.op = "next_truncated_time"
  /\ res.clk \in GridPoints(res.period)
  /\ res.out = Ok(TAdd(res.clk, res.period))

\* C17 (no pulse in the past): next_pulse_timestamp gives an instant
\* strictly later than the clock it read and than prev_time, and so does
\* the timestamp of every successor payload new_next or the builder gives.
C17_NoPast ==
  /\ res.op = "next_pulse_timestamp" =>
       /\ res.out.ok
       /\ TLt(res.clk, res.out.val)
       /\ TLt(res.prev_time, res.out.val)
  /\ (res.op = "new_next" /\ res.out.ok) =>
       /\ TLt(res.clk, res.out.val.timestamp)
       /\ TLt(RawTime(res.prev), res.out.val.timestamp)
  /\ (/\ res.op = "builder"
      /\ res.prev.some
      /\ res.out.ok
      /\ TLt(Secs(0), res.strand.details.period)) =>
       /\ TLt(res.clk, res.out.val.timestamp)
       /\ TLt(RawTime(res.prev.v), res.out.val.timestamp)

\* the same when the clock is not set back between the two readings: holds
C17_SteadyClock ==
  /\ (res.op = "next_pulse_timestamp" /\ TLe(res.clk, res.clk2)) =>
       /\ res.out.ok
       /\ TLt(res.clk, res.out.val)
       /\ TLt(res.prev_time, res.out.val)
  /\ (res.op = "new_next" /\ res.out.ok /\ TLe(res.clk, res.clk2)) =>
       /\ TLt(res.clk, res.out.val.timestamp)
       /\ TLt(RawTime(res.prev), res.out.val.timestamp)
  /\ (/\ res.op = "builder"
      /\ res.prev.some
      /\ res.out.ok
      /\ TLe(res.clk, res.clk2)
      /\ TLt(Secs(0), res.strand.details.period)) =>
       /\ TLt(res.clk, res.out.val.timestamp)
       /\ TLt(RawTime(res.prev.v), res.out.val.timestamp)

\* after a stall of two periods or more one pulse is scheduled, after now
C17_Witness ==
  /\ res.op = "next_pulse_timestamp"
  /\ TLe(res.clk, res.clk2)
  /\ TLe(TAdd(res.period, res.period), TSub(res.clk, res.prev_time))
  /\ TLt(res.clk, res.out.val)
  /\ TLe(res.out.val, TAdd(res.clk, res.period))


----------------------------------------------------------------------------
(* The builder closure *)

RsaAlgs == {"Sha256Rsa", "Sha384Rsa", "Sha512Rsa"}

\* C11 (signing algorithm): the builder closure gives a payload only on a
\* chain signed with Sha256Rsa, Sha384Rsa or Sha512Rsa; with any other
\* algorithm it gives a construction error, for a first entry and for a
\* successor, whatever current and next are.
C11_SigningAlgorithm ==
  res.op = "builder" =>
    /\ res.out.ok => res.strand.alg \in RsaAlgs
    /\ res.strand.alg \notin RsaAlgs =>
         /\ ~res.out.ok
         /\ res.out.err = "PayloadConstruction"
         /\ res.out.why = "Signature algorithm must be provably deterministic"

\* a successor whose reveal opens the commitment is refused for the
\* algorithm of its chain
C11_Witness ==
  /\ res.op = "builder"
  /\ res.strand.alg \notin RsaAlgs
  /\ res.prev.some
  /\ extract_payload(res.prev.v).ok
  /\ res.prev.v.payload.pre = Digest(hasher(res.prev.v), res.self.current)
  /\ ~res.out.ok

\* C15 (first payload): called without a previous entry the builder closure
\* gives a payload with an all-zero salt of the digest size of pre and
\* pre = hash(next), and its result is the same for every current value.
C15_FirstPayload ==
  (res.op = "builder" /\ ~res.prev.some) =>
    /\ res.out.ok =>
         /\ res.out.val.salt = Fill(0, MhSize(res.out.val.pre))
         /\ res.out.val.pre = Digest(res.strand.hasher, res.self.next)
    /\ \A c \in FnValues :
         builder([res.self EXCEPT !.current = c], res.strand, None,
                 res.clk, res.clk2)
           = res.out

\* a first payload from a builder whose current has not the digest size
C15_Witness ==
  /\ res.op = "builder"
  /\ ~res.prev.some
  /\ Len(res.self.current) # CodeSize(res.strand.hasher)
  /\ res.self.current # res.self.next
  /\ res.out.ok
  /\ res.out.val.salt = Fill(0, CodeSize(res.strand.hasher))

\* C14 (determinism) as stated: two calls of the closure with the same
\* builder state, chain header and previous entry give the same result.
C14_Determinism ==
  res.op = "builder_twice" => res.out = res.out2

\* the clock readings of the two calls lie in the same slot of the period
\* grid and, with a previous entry, the first readings lie on the same side
\* of its timestamp plus one period
SameSlot(r) ==
  LET period == r.strand.details.period IN
  /\ \A c \in {r.r1, r.clk2, r.r2} :
       TLe(Secs(0), c) /\ Floor(c, period) = Floor(r.clk, period)
  /\ r.prev.some =>
       (TLt(TSub(r.clk, RawTime(r.prev.v)), period)
          <=> TLt(TSub(r.clk2, RawTime(r.prev.v)), period))

\* C14 amended: the result is a function of the builder state, the header,
\* the previous entry and the clock: two such calls give the same result
\* when all their clock readings, none before the epoch, lie in the same
\* slot of the period grid and, with a previous entry, their first readings
\* are both less than one period or both at least one period past its
\* timestamp.
C14_DeterminismAmended ==
  (res.op = "builder_twice" /\ SameSlot(res)) => res.out = res.out2

\* two calls at different instants of one slot give the same payload
C14_Witness ==
  /\ res.op = "builder_twice"
  /\ res.clk # res.clk2
  /\ SameSlot(res)
  /\ res.out.ok
  /\ res.out2 = res.out

----------------------------------------------------------------------------
(* The builder state, checked under Spec *)

\* C16 (forward only): a call of the construction function, successful or
\* failing, leaves current and next as they are, and the only change of the
\* builder state is that of advance(n): next moves into current and n
\* becomes next; so after new(c, n0), advance(n1), ..., advance(nk) the
\* state is (n_{k-1}, n_k), and (c, n0) for k = 0.
C16_ForwardOnly ==
  [][/\ res'.op = "build" => pb' = pb
     /\ res'.op = "extract" => pb' = pb
     /\ pb' # pb => \E n \in RawValues : pb' = [current |-> pb.next, next |-> n]
     /\ hist'.adv = hist.adv + 1 => pb'.current = pb.next]_vars

\* a failing construction after two advances left the builder as it was:
\* current is the value of the first advance, which the entry before does
\* not commit to
C16_Witness ==
  /\ res.op = "build"
  /\ res.adv = 2
  /\ ~res.out.ok
  /\ pb = res.pb
  /\ pb.current # pb.next

----------------------------------------------------------------------------
(* Construction against verification, checked under SpecFn *)

\* C18 (construction and verification agree): a payload new_next returns
\* at a clock reading less than one period past the previous timestamp
\* passes validate_randomness against the same previous entry, whatever the
\* length of the reveal new_next accepted.
C18_Agreement ==
  (/\ res.op = "new_next"
   /\ res.out.ok
   /\ TLt(TSub(res.clk, RawTime(res.prev)), res.period))
  => validate_randomness(res.out.val, res.prev).ok

\* the same for reveals no longer than the digest: holds
C18_NotLonger ==
  (/\ res.op = "new_next"
   /\ res.out.ok
   /\ TLt(TSub(res.clk, RawTime(res.prev)), res.period)
   /\ Len(res.rand) <= MhSize(res.prev.cid))
  => validate_randomness(res.out.val, res.prev).ok

\* the policy checks of the builder closure on a chain header
PolicyOk(strand) ==
  /\ strand.alg \in RsaAlgs
  /\ strand.subspec.some
  /\ strand.subspec.v.prefix = "twine-rng"
  /\ strand.subspec.v.major = 1
  /\ strand.subspec.v.minor = 0

\* C19 (policy at extraction): extract_randomness gives a value only for
\* entries of a chain whose header passes the policy checks of the builder
\* (deterministic signing algorithm, twine-rng prefix, version 1.0.x).
C19_PolicyAtExtraction ==
  (res.op = "extract" /\ res.out.ok) => PolicyOk(res.current.strand)

\* the same for the chains of the builder: holds
C19_OwnChains ==
  (res.op = "extract" /\ res.out.ok /\ res.current.strand \in GoodStrands)
  => PolicyOk(res.current.strand)

============================================================================
